---- MODULE Spec2Model ----
(***************************************************************************)
(* Model of the note-sharing d-app (src/src/main.rs): the yew component    *)
(* App, its update handler, the asynchronous fetches it starts and the     *)
(* wikilink binding done by set_markdown_content.                          *)
(*                                                                         *)
(* Strings are sequences of tokens (one token per character; an html tag   *)
(* is one token).  A panic (expect, unwrap, panic!) ends the program:      *)
(* crashed becomes TRUE and no handler runs afterwards.                    *)
(***************************************************************************)
EXTENDS Integers, Sequences, FiniteSets, TLC

\* ------------------------------------------------------------------ bounds
\* at most this many fetches (manifest or note) are started in one run
MaxFetches == 4
\* wikilink bodies of at most this many characters are rendered
MaxBody == 5
\* note texts of at most this many pieces (wikilinks, titled links, plain text)
MaxItems == 3

\* ------------------------------------------------------------ environment
\* Option<T>: None, or Some(x)
None == <<>>
Some(x) == <<x>>

\* content identifiers the manifests can name
Hashes == {"Q1", "Q2", "Q3", "Q4"}

\* markdown of an inline link with a title, [t](u "...") , as two tokens
LinkOpen == "[t](u \""
LinkClose == "\")"

\* what the ipfs gateway serves for each identifier (content addressed)
Store ==
  [h \in Hashes |->
     CASE h = "Q1" -> <<"[","[","b","|","B","]","]","[","[","c","]","]","[","[","a","]","]">>
       [] h = "Q2" -> <<"x","[","[","a","]","]","[","[","b","]","]">>
       [] h = "Q3" -> <<"[","[","c","|","a","]","]">>
       [] OTHER    -> <<LinkOpen,"[","[","a","]","]",LinkClose,"[","[","b","]","]">>]

\* body the gateway answers with an http error status (send() still succeeds)
GatewayErrorText == <<"e">>

\* the manifests a url can answer with
Vaults ==
  { [root |-> <<"a">>, author |-> "x",
     ipfsmap |-> (<<"a">> :> "Q1") @@ (<<"b">> :> "Q2")],
    [root |-> <<"b">>, author |-> "y",
     ipfsmap |-> (<<"b">> :> "Q2") @@ (<<"a">> :> "Q3")],
    [root |-> <<"a">>, author |-> "w",
     ipfsmap |-> (<<"a">> :> "Q2") @@ (<<"b">> :> "Q4")],
    [root |-> <<"c">>, author |-> "z",
     ipfsmap |-> (<<"a">> :> "Q1")] }

\* the url shown by create, and the urls the user can type
EnterUrl == <<"enter url">>
Urls == {<<"u">>}

\* ------------------------------------------------------------------ state
VARIABLES
  status,          \* App.status: [tag, val]
  vault,           \* App.vault: None or a Vault
  dom,             \* buttons inside the markdown_view element: [text, red]
  link_listeners,  \* App.link_listeners: [button, hash], click -> FetchNote(hash)
  pending,         \* futures handed to send_future and not yet completed
  crashed,         \* a panic happened
  nextId,          \* history: number the next fetch gets
  latestNote,      \* history: the most recently issued note fetch, or None
  shown,           \* history: id of the note fetch whose text is rendered (0: none)
  rendered,        \* history: text and link table of the last rendering and the
                   \* number of listeners it found attached, or None
  issuedUnder,     \* history: for each note fetch id, the link table its address
                   \* was taken from
  last             \* history: the handler or completion that ran last

vars == <<status, vault, dom, link_listeners, pending, crashed,
          nextId, latestNote, shown, rendered, issuedUnder, last>>

\* --------------------------------------------------------- pure functions
\* str::split("|"): the parts of s between the separators
RECURSIVE SplitFrom(_, _, _)
SplitFrom(s, i, cur) ==
  IF i > Len(s) THEN <<cur>>
  ELSE IF s[i] = "|" THEN <<cur>> \o SplitFrom(s, i + 1, <<>>)
  ELSE SplitFrom(s, i + 1, Append(cur, s[i]))

Split(s) == SplitFrom(s, 1, <<>>)

Get(associations, key) ==
  IF key \in DOMAIN associations THEN Some(associations[key]) ELSE None

\* the part of s before its first "|", and the part after it
RECURSIVE BeforePipe(_)
BeforePipe(s) ==
  IF s = <<>> \/ Head(s) = "|" THEN <<>> ELSE <<Head(s)>> \o BeforePipe(Tail(s))

extract_link_SplitFirst(wikilink, associations) ==
  LET key == BeforePipe(wikilink) IN
  IF Len(key) < Len(wikilink)
    THEN [name |-> SubSeq(wikilink, Len(key) + 2, Len(wikilink)),
          hash |-> Get(associations, key)]
    ELSE [name |-> key, hash |-> Get(associations, key)]

extract_link_NameKey(wikilink, associations) ==
  LET parts_of_link == Split(wikilink) IN
  [name |-> parts_of_link[1], hash |-> Get(associations, parts_of_link[1])]

extract_link_TextKey(wikilink, associations) ==
  LET parts_of_link == Split(wikilink) IN
  IF Len(parts_of_link) = 2
    THEN [name |-> parts_of_link[2], hash |-> Get(associations, parts_of_link[2])]
    ELSE [name |-> parts_of_link[1], hash |-> Get(associations, parts_of_link[1])]

extract_link(wikilink, associations) ==
  LET parts_of_link == Split(wikilink) IN
  IF Len(parts_of_link) = 2
    THEN [name |-> parts_of_link[2], hash |-> Get(associations, parts_of_link[1])]
    ELSE [name |-> parts_of_link[1], hash |-> Get(associations, parts_of_link[1])]

\* html of an anchor with a title attribute, as two tokens
AnchorOpen == "<a href='u' title='"
AnchorClose == "'>t</a>"

\* position of the LinkClose that ends the link opened before i, 0 if none
RECURSIVE LinkCloseFrom(_, _)
LinkCloseFrom(s, i) ==
  IF i > Len(s) \/ s[i] = LinkOpen THEN 0
  ELSE IF s[i] = LinkClose THEN i
  ELSE LinkCloseFrom(s, i + 1)

\* the inline content of a paragraph: a titled link becomes an anchor whose
\* title attribute holds the title text, everything else is kept as text
RECURSIVE InlineFrom(_, _)
InlineFrom(s, i) ==
  IF i > Len(s) THEN <<>>
  ELSE IF s[i] = LinkOpen /\ LinkCloseFrom(s, i + 1) # 0
    THEN LET j == LinkCloseFrom(s, i + 1) IN
         <<AnchorOpen>> \o SubSeq(s, i + 1, j - 1) \o <<AnchorClose>>
           \o InlineFrom(s, j + 1)
    ELSE <<s[i]>> \o InlineFrom(s, i + 1)

\* markdown::to_html on a one-paragraph text of plain characters and titled links
to_html(content) == <<"<p>">> \o InlineFrom(content, 1) \o <<"</p>">>

raw_html(content) == <<"<div>">> \o to_html(content) \o <<"</div>">>

IsOpen(s, p) == p + 1 <= Len(s) /\ s[p] = "[" /\ s[p + 1] = "["
IsClose(s, q) == q + 1 <= Len(s) /\ s[q] = "]" /\ s[q + 1] = "]"

\* position of the first "]]" at or after q with no line break before it, 0 if none
RECURSIVE FindClose(_, _)
FindClose(s, q) ==
  IF q + 1 > Len(s) THEN 0
  ELSE IF IsClose(s, q) THEN q
  ELSE IF s[q] = "\n" THEN 0
  ELSE FindClose(s, q + 1)

\* Regex \[\[(.*?)\]\]: the leftmost non-overlapping matches from position p on,
\* each as [start, end, body]
RECURSIVE MatchesFrom(_, _)
MatchesFrom(s, p) ==
  IF p + 3 > Len(s) THEN <<>>
  ELSE IF IsOpen(s, p) /\ FindClose(s, p + 2) # 0
    THEN LET q == FindClose(s, p + 2) IN
         <<[start |-> p, end |-> q + 1, body |-> SubSeq(s, p + 2, q - 1)]>>
           \o MatchesFrom(s, q + 2)
    ELSE MatchesFrom(s, p + 1)

captures_iter(s) == MatchesFrom(s, 1)

\* re.replace_all(s, "<button></button>")
RECURSIVE ReplaceFrom(_, _, _)
ReplaceFrom(s, p, ms) ==
  IF ms = <<>> THEN SubSeq(s, p, Len(s))
  ELSE SubSeq(s, p, ms[1].start - 1) \o <<"<button>", "</button>">>
         \o ReplaceFrom(s, ms[1].end + 1, Tail(ms))

replace_all(s) == ReplaceFrom(s, 1, captures_iter(s))

\* the number of button elements the html parser builds from position i on:
\* a "<button>" inside the quotes of an attribute value is attribute text
RECURSIVE ElementsFrom(_, _, _)
ElementsFrom(html, i, inAttribute) ==
  IF i > Len(html) THEN 0
  ELSE IF html[i] = AnchorOpen THEN ElementsFrom(html, i + 1, TRUE)
  ELSE IF html[i] = AnchorClose THEN ElementsFrom(html, i + 1, FALSE)
  ELSE IF html[i] = "<button>" /\ ~inAttribute THEN 1 + ElementsFrom(html, i + 1, inAttribute)
  ELSE ElementsFrom(html, i + 1, inAttribute)

\* query_selector_all("button") after set_inner_html: one fresh button per element
query_selector_all(html) ==
  [i \in 1..ElementsFrom(html, 1, FALSE) |-> [text |-> <<>>, red |-> FALSE]]

\* the loop of set_markdown_content from index i on
RECURSIVE BindFrom(_, _, _, _, _)
BindFrom(i, link_matches, associations, buttons, listeners) ==
  IF i > Len(link_matches)
    THEN [panic |-> FALSE, dom |-> buttons, listeners |-> listeners]
  ELSE IF i > Len(buttons)
    THEN [panic |-> TRUE, dom |-> buttons, listeners |-> listeners]
  ELSE LET l == extract_link(link_matches[i].body, associations) IN
       IF l.hash # None
         THEN BindFrom(i + 1, link_matches, associations,
                       [buttons EXCEPT ![i].text = l.name],
                       Append(listeners, [button |-> i, hash |-> l.hash[1]]))
         ELSE BindFrom(i + 1, link_matches, associations,
                       [buttons EXCEPT ![i].text = l.name, ![i].red = TRUE],
                       listeners)

set_markdown_content_KeepListeners(content, associations, listeners) ==
  LET html == raw_html(content) IN
  BindFrom(1, captures_iter(html), associations,
           query_selector_all(replace_all(html)), listeners)

set_markdown_content(content, associations, listeners) ==
  LET html == raw_html(content) IN
  BindFrom(1, captures_iter(html), associations,
           query_selector_all(replace_all(html)), <<>>)

\* ------------------------------------------------------------------- Init
Init ==
  /\ status = [tag |-> "Home", val |-> EnterUrl]
  /\ vault = None
  /\ dom = <<>>
  /\ link_listeners = <<>>
  /\ pending = {}
  /\ crashed = FALSE
  /\ nextId = 1
  /\ latestNote = None
  /\ shown = 0
  /\ rendered = None
  /\ issuedUnder = [i \in 1..MaxFetches |-> None]
  /\ last = [op |-> "create", fetch |-> None, vault |-> None, button |-> 0]

\* ---------------------------------------------------------------- helpers
Home(url) == [tag |-> "Home", val |-> url]
WaitingForFile(name) == [tag |-> "WaitingForFile", val |-> name]
Reading(content) == [tag |-> "Reading", val |-> content]

\* a future given to send_future
VaultFetch(id, url) == [id |-> id, kind |-> "vault", url |-> url, hash |-> ""]
NoteFetch(id, hash) == [id |-> id, kind |-> "note", url |-> <<>>, hash |-> hash]

Ran(op, fetch, v, button) ==
  last' = [op |-> op, fetch |-> fetch, vault |-> v, button |-> button]

\* a panic: the program stops where it is
Panic == crashed' = TRUE

\* view: the url input and the "valider" button exist only in Status::Home
HomeViewRendered == status.tag = "Home"

\* ---------------------------------------------------------------- actions
SetUrl_AndFetch(url) ==
  /\ ~crashed
  /\ status.tag = "Home"
  /\ status' = [tag |-> "Home", val |-> url]
  /\ nextId <= MaxFetches
  /\ pending' = pending \cup {VaultFetch(nextId, url)}
  /\ nextId' = nextId + 1
  /\ Ran("SetUrl", None, None, 0)
  /\ UNCHANGED <<vault, dom, link_listeners, crashed,
                 latestNote, shown, rendered, issuedUnder>>

\* Msg::SetUrl(url), sent by the oninput callback of url_input
SetUrl(url) ==
  /\ ~crashed
  /\ HomeViewRendered
  /\ status' = Home(url)
  /\ Ran("SetUrl", None, None, 0)
  /\ UNCHANGED <<vault, dom, link_listeners, pending, crashed,
                 nextId, latestNote, shown, rendered, issuedUnder>>

\* Msg::FetchVault as update handles it
UpdateFetchVault ==
  /\ ~crashed
  /\ Ran("FetchVault", None, None, 0)
  /\ IF status.tag = "Home"
       THEN /\ nextId <= MaxFetches
            /\ pending' = pending \cup {VaultFetch(nextId, status.val)}
            /\ nextId' = nextId + 1
            /\ UNCHANGED <<status, vault, dom, link_listeners, crashed,
                           latestNote, shown, rendered, issuedUnder>>
       ELSE /\ Panic
            /\ UNCHANGED <<status, vault, dom, link_listeners, pending,
                           nextId, latestNote, shown, rendered, issuedUnder>>

\* a click on the "valider" button of the Home view
FetchVault ==
  /\ HomeViewRendered
  /\ UpdateFetchVault

\* Msg::FetchVault reaching update while the Home view is not rendered
FetchVaultOutsideHome ==
  /\ ~HomeViewRendered
  /\ UpdateFetchVault

\* fetch_vault_description_and_start fails: send() or json() gives Err
VaultFetchFails(f) ==
  /\ ~crashed
  /\ f \in pending /\ f.kind = "vault"
  /\ pending' = pending \ {f}
  /\ Panic
  /\ Ran("VaultFetchFails", Some(f), None, 0)
  /\ UNCHANGED <<status, vault, dom, link_listeners,
                 nextId, latestNote, shown, rendered, issuedUnder>>

ReceiveVault_NoStore(f, v) ==
  /\ ~crashed
  /\ f \in pending /\ f.kind = "vault"
  /\ Ran("ReceiveVault", Some(f), Some(v), 0)
  /\ IF v.root \in DOMAIN v.ipfsmap
       THEN /\ nextId <= MaxFetches
            /\ LET hash == v.ipfsmap[v.root] IN
               /\ pending' = (pending \ {f}) \cup {NoteFetch(nextId, hash)}
               /\ latestNote' = Some(NoteFetch(nextId, hash))
            /\ issuedUnder' = [issuedUnder EXCEPT ![nextId] = Some(v.ipfsmap)]
            /\ nextId' = nextId + 1
            /\ status' = WaitingForFile(v.root)
            /\ UNCHANGED <<vault, dom, link_listeners, crashed, shown, rendered>>
       ELSE /\ pending' = pending \ {f}
            /\ Panic
            /\ UNCHANGED <<status, vault, dom, link_listeners,
                           nextId, latestNote, shown, rendered, issuedUnder>>

\* fetch_vault_description_and_start completes, update handles Msg::ReceiveVault(v)
ReceiveVault(f, v) ==
  /\ ~crashed
  /\ f \in pending /\ f.kind = "vault"
  /\ Ran("ReceiveVault", Some(f), Some(v), 0)
  /\ IF v.root \in DOMAIN v.ipfsmap
       THEN /\ nextId <= MaxFetches
            /\ LET hash == v.ipfsmap[v.root] IN
               /\ pending' = (pending \ {f}) \cup {NoteFetch(nextId, hash)}
               /\ latestNote' = Some(NoteFetch(nextId, hash))
            /\ issuedUnder' = [issuedUnder EXCEPT ![nextId] = Some(v.ipfsmap)]
            /\ nextId' = nextId + 1
            /\ status' = WaitingForFile(v.root)
            /\ vault' = Some(v)
            /\ UNCHANGED <<dom, link_listeners, crashed, shown, rendered>>
       ELSE /\ pending' = pending \ {f}
            /\ Panic
            /\ UNCHANGED <<status, vault, dom, link_listeners,
                           nextId, latestNote, shown, rendered, issuedUnder>>

\* fetch_note_content_and_read fails: send() or text() gives Err
NoteFetchFails(f) ==
  /\ ~crashed
  /\ f \in pending /\ f.kind = "note"
  /\ pending' = pending \ {f}
  /\ Panic
  /\ Ran("NoteFetchFails", Some(f), None, 0)
  /\ UNCHANGED <<status, vault, dom, link_listeners,
                 nextId, latestNote, shown, rendered, issuedUnder>>

\* the bodies a completed note request can carry
Responses(f) == {Store[f.hash], GatewayErrorText}

\* Msg::ReceiveNote(content), sent by the completed future f, as update handles it
UpdateReceiveNote(f, content) ==
  /\ ~crashed
  /\ f \in pending /\ f.kind = "note"
  /\ pending' = pending \ {f}
  /\ Ran("ReceiveNote", Some(f), None, 0)
  /\ IF vault = None
       THEN /\ Panic
            /\ UNCHANGED <<status, vault, dom, link_listeners,
                           nextId, latestNote, shown, rendered, issuedUnder>>
       ELSE LET r == set_markdown_content(content, vault[1].ipfsmap, link_listeners) IN
            /\ dom' = r.dom
            /\ link_listeners' = r.listeners
            /\ rendered' = Some([content |-> content, ipfsmap |-> vault[1].ipfsmap,
                                 dropped |-> Len(link_listeners)])
            /\ IF r.panic
                 THEN /\ Panic
                      /\ UNCHANGED <<status, shown>>
                 ELSE /\ status' = Reading(content)
                      /\ shown' = f.id
                      /\ UNCHANGED crashed
            /\ UNCHANGED <<vault, nextId, latestNote, issuedUnder>>

\* fetch_note_content_and_read completes with a body the gateway has for f
ReceiveNote(f, content) ==
  /\ f.kind = "note"
  /\ content \in Responses(f)
  /\ UpdateReceiveNote(f, content)

\* a click on a button that carries a listener: Msg::FetchNote(hash)
FetchNote(l) ==
  /\ ~crashed
  /\ l \in 1..Len(link_listeners)
  /\ nextId <= MaxFetches
  /\ LET hash == link_listeners[l].hash IN
     /\ pending' = pending \cup {NoteFetch(nextId, hash)}
     /\ latestNote' = Some(NoteFetch(nextId, hash))
  /\ issuedUnder' = [issuedUnder EXCEPT ![nextId] = Some(rendered[1].ipfsmap)]
  /\ nextId' = nextId + 1
  /\ Ran("FetchNote", None, None, link_listeners[l].button)
  /\ UNCHANGED <<status, vault, dom, link_listeners, crashed, shown, rendered>>

HasListener(i) == \E l \in 1..Len(link_listeners) : link_listeners[l].button = i

\* a click on a button of the note that carries no listener
ClickUnbound(i) ==
  /\ ~crashed
  /\ i \in 1..Len(dom)
  /\ ~HasListener(i)
  /\ Ran("ClickUnbound", None, None, i)
  /\ UNCHANGED <<status, vault, dom, link_listeners, pending, crashed,
                 nextId, latestNote, shown, rendered, issuedUnder>>

Next ==
  \/ \E url \in Urls : SetUrl(url)
  \/ FetchVault
  \/ \E f \in pending : VaultFetchFails(f)
  \/ \E f \in pending, v \in Vaults : ReceiveVault(f, v)
  \/ \E f \in pending : NoteFetchFails(f)
  \/ \E f \in pending, content \in {Store[h] : h \in Hashes} \cup {GatewayErrorText} :
       ReceiveNote(f, content)
  \/ \E l \in 1..Len(link_listeners) : FetchNote(l)
  \/ \E i \in 1..Len(dom) : ClickUnbound(i)

\* the program as its view drives it
Spec == Init /\ [][Next]_vars

\* the update handler given every message in every state
NextUpdate == Next \/ FetchVaultOutsideHome

SpecUpdate == Init /\ [][NextUpdate]_vars

\* ------------------------------------------------- rendering of any text
\* the link tables of a vault whose root <<"k">> resolved
RenderKeys == {<<"k">>, <<"d">>, <<>>}
RenderHashes == {"Q1", "Q2"}
Tables ==
  UNION {[S -> RenderHashes] : S \in {T \in SUBSET RenderKeys : <<"k">> \in T}}

\* every wikilink body of at most MaxBody characters, as the only wikilink of a note
Bodies == UNION {[1..n -> {"k", "d", "|"}] : n \in 0..MaxBody}
BodyTexts == {<<"[", "[">> \o b \o <<"]", "]">> : b \in Bodies}

\* notes made of at most MaxItems pieces
Items ==
  { <<"[", "[", "k", "]", "]">>,
    <<"[", "[", "d", "|", "k", "]", "]">>,
    <<"x">>,
    <<LinkOpen, "[", "[", "k", "]", "]", LinkClose>> }

RECURSIVE Concat(_)
Concat(ss) == IF ss = <<>> THEN <<>> ELSE Head(ss) \o Concat(Tail(ss))

ItemTexts == {Concat(ss) : ss \in UNION {[1..n -> Items] : n \in 0..MaxItems}}

Texts == BodyTexts \cup ItemTexts

\* the state after a manifest with link table t arrived: its root note is awaited
InitRender ==
  \E t \in Tables :
    LET v == [root |-> <<"k">>, author |-> "x", ipfsmap |-> t]
        f == NoteFetch(2, t[<<"k">>]) IN
    /\ status = WaitingForFile(v.root)
    /\ vault = Some(v)
    /\ dom = <<>>
    /\ link_listeners = <<>>
    /\ pending = {f}
    /\ crashed = FALSE
    /\ nextId = 3
    /\ latestNote = Some(f)
    /\ shown = 0
    /\ rendered = None
    /\ issuedUnder = [i \in 1..MaxFetches |-> IF i = 2 THEN Some(t) ELSE None]
    /\ last = [op |-> "ReceiveVault", fetch |-> Some(VaultFetch(1, EnterUrl)),
               vault |-> Some(v), button |-> 0]

\* the note request completes with any text
ReceiveAnyNote(f, content) ==
  /\ content \in Texts
  /\ UpdateReceiveNote(f, content)

NextRender == \E f \in pending, content \in Texts : ReceiveAnyNote(f, content)

\* update(Msg::ReceiveNote) on every text and every link table
SpecRender == InitRender /\ [][NextRender]_vars

\* ------------------------------------------- one load, fetches that succeed
\* the manifests whose root key has an address
RootedVaults == {v \in Vaults : v.root \in DOMAIN v.ipfsmap}

\* the first click on "valider"
FirstFetchVault == nextId = 1 /\ FetchVault

VaultArrives == \E f \in pending, v \in RootedVaults : ReceiveVault(f, v)

NoteArrives ==
  \E f \in pending, content \in {Store[h] : h \in Hashes} \cup {GatewayErrorText} :
    ReceiveNote(f, content)

NextFair ==
  \/ \E url \in Urls : SetUrl(url)
  \/ FirstFetchVault
  \/ VaultArrives
  \/ NoteArrives
  \/ \E l \in 1..Len(link_listeners) : FetchNote(l)
  \/ \E i \in 1..Len(dom) : ClickUnbound(i)

\* every request that is in flight is answered
SpecFair ==
  Init /\ [][NextFair]_vars /\ WF_vars(VaultArrives) /\ WF_vars(NoteArrives)

TypeOK ==
  /\ status.tag \in {"Home", "WaitingForFile", "Reading"}
  /\ crashed \in BOOLEAN
  /\ nextId \in 1..(MaxFetches + 1)
  /\ \A f \in pending : f.id < nextId

\* ----------------------------------------------------------------- claims
NotePending == {f \in pending : f.kind = "note"}

\* the key of a wikilink body: what stands before its first "|"
RECURSIVE KeyOf(_)
KeyOf(body) ==
  IF body = <<>> \/ Head(body) = "|" THEN <<>>
  ELSE <<Head(body)>> \o KeyOf(Tail(body))

\* the wikilinks of the last rendering, in order of appearance
RenderedLinks == captures_iter(raw_html(rendered[1].content))

\* the listeners a rendering of these wikilinks owes, from link i on
RECURSIVE OwedFrom(_, _, _)
OwedFrom(i, ms, table) ==
  IF i > Len(ms) THEN <<>>
  ELSE IF KeyOf(ms[i].body) \in DOMAIN table
    THEN <<[button |-> i, hash |-> table[KeyOf(ms[i].body)]]>> \o OwedFrom(i + 1, ms, table)
    ELSE OwedFrom(i + 1, ms, table)

\* C1: once no note fetch is in flight, the text on display is what the most
\* recently issued note fetch answers, whatever the order of completion.
C1_LatestFetchWins ==
  (~crashed /\ status.tag = "Reading" /\ NotePending = {} /\ latestNote # None)
    => status.val \in Responses(latestNote[1])

\* C2: a manifest whose root key is absent from its link table puts the
\* state machine in the error status, without a crash.
C2_RootAbsentFails ==
  (last.op = "ReceiveVault" /\ last.vault[1].root \notin DOMAIN last.vault[1].ipfsmap)
    => (~crashed /\ status.tag = "Error")

\* C3: a failed manifest fetch is a transition to the error status, not a
\* fault that ends the program.
C3_ManifestFailureIsState ==
  last.op = "VaultFetchFails" => (status.tag = "Error" /\ ~crashed)

\* C4: a failed note fetch is a transition to the error status, not a crash
\* and not the previous state.
C4_NoteFailureIsState ==
  last.op = "NoteFetchFails" => (~crashed /\ status.tag = "Error")

\* C5: a "load" trigger handled in Home leaves Home for the manifest-wait
\* state, so that no second manifest fetch can join the first.
C5_LoadLeavesHome ==
  (last.op = "FetchVault" /\ ~crashed)
    => (status.tag = "WaitingForVault"
        /\ Cardinality({f \in pending : f.kind = "vault"}) = 1)

\* C6: a click on a resolved link leaves Reading for the note-wait state of
\* that link's address until the fetch completes.
C6_ClickLeavesReading ==
  last.op = "FetchNote"
    => (status.tag = "WaitingForFile" /\ status.val = <<latestNote[1].hash>>)

\* C7: a "load" trigger handled outside Home changes nothing and does not crash.
C7_LoadOutsideHomeIsNoOp ==
  (last.op = "FetchVault" /\ status.tag # "Home") => ~crashed

\* C8: a wikilink whose key had no entry in the link table it was rendered
\* against has a button marked red that carries no click listener; only a
\* rendering that panicked can have left such a wikilink without a button.
C8_UnresolvedNeverActivatable ==
  rendered # None =>
    \A i \in 1..Len(RenderedLinks) :
      KeyOf(RenderedLinks[i].body) \notin DOMAIN rendered[1].ipfsmap
        => /\ i <= Len(dom) => (dom[i].red /\ ~HasListener(i))
           /\ ~crashed => i <= Len(dom)

\* a click landed on the button of an unresolved wikilink
C8_Witness ==
  /\ rendered # None
  /\ last.op = "ClickUnbound"
  /\ last.button <= Len(RenderedLinks)
  /\ KeyOf(RenderedLinks[last.button].body) \notin DOMAIN rendered[1].ipfsmap

IsPrefix(a, b) == Len(a) <= Len(b) /\ SubSeq(b, 1, Len(a)) = a

\* C9: the attached click listeners are exactly one per resolved wikilink of
\* the most recently rendered note, each for that link's address, and none
\* of an earlier note is left; a rendering that panicked has attached the
\* first of them only.
C9_ListenersAreLastRender ==
  LET owed == IF rendered = None THEN <<>>
              ELSE OwedFrom(1, RenderedLinks, rendered[1].ipfsmap) IN
  /\ IsPrefix(link_listeners, owed)
  /\ ~crashed => link_listeners = owed

\* a note was rendered over an earlier note that had listeners
C9_Witness ==
  /\ last.op = "ReceiveNote"
  /\ ~crashed
  /\ rendered[1].dropped >= 1
  /\ Len(link_listeners) >= 1

\* C10 as stated: after a manifest with its root key present, the status is
\* the note-wait state carrying the address links[root].
C10_StatusCarriesAddress ==
  (last.op = "ReceiveVault" /\ ~crashed)
    => status = WaitingForFile(<<last.vault[1].ipfsmap[last.vault[1].root]>>)

\* C10 amended: a manifest with its root key present is stored as the vault,
\* the status becomes WaitingForFile carrying the root key, and exactly one
\* note fetch is issued, for the address links[root].
C10_ReceiveVaultStarts ==
  [][(last'.op = "ReceiveVault" /\ ~crashed')
       => LET v == last'.vault[1] IN
          /\ v.root \in DOMAIN v.ipfsmap
          /\ vault' = Some(v)
          /\ status' = WaitingForFile(v.root)
          /\ pending' \ pending = {NoteFetch(nextId, v.ipfsmap[v.root])}
          /\ pending \ pending' = {last'.fetch[1]}]_vars

\* a manifest with its root key present has just been handled
C10_Witness ==
  /\ last.op = "ReceiveVault"
  /\ ~crashed
  /\ vault = last.vault
  /\ status.tag = "WaitingForFile"

\* number of "|" in a wikilink body
RECURSIVE NumPipes(_)
NumPipes(body) ==
  IF body = <<>> THEN 0
  ELSE (IF Head(body) = "|" THEN 1 ELSE 0) + NumPipes(Tail(body))

\* what follows the first "|" of a wikilink body
RECURSIVE AfterFirstPipe(_)
AfterFirstPipe(body) ==
  IF body = <<>> THEN <<>>
  ELSE IF Head(body) = "|" THEN Tail(body)
  ELSE AfterFirstPipe(Tail(body))

\* the button of wikilink i carries what the lookup of key in the table of
\* the rendering gives: a listener for the address, or the red mark
BoundTo(i, key) ==
  LET table == rendered[1].ipfsmap IN
  IF key \in DOMAIN table
    THEN /\ ~dom[i].red
         /\ \E l \in 1..Len(link_listeners) :
              link_listeners[l] = [button |-> i, hash |-> table[key]]
         /\ \A l \in 1..Len(link_listeners) :
              link_listeners[l].button = i => link_listeners[l].hash = table[key]
    ELSE dom[i].red /\ ~HasListener(i)

\* the wikilinks of the last rendering that were given a button
BoundLinks == {i \in 1..Len(RenderedLinks) : i <= Len(dom)}

\* C12 as stated: a body with more than one "|" has the text before the first
\* "|" as key and everything after the first "|" as display text.
C12_RestFoldedIntoText ==
  rendered # None =>
    \A i \in BoundLinks :
      LET b == RenderedLinks[i].body IN
      NumPipes(b) > 1 => (dom[i].text = AfterFirstPipe(b) /\ BoundTo(i, KeyOf(b)))

\* C12 amended: a body with more than one "|" has the text before the first
\* "|" both as key and as display text; what follows the first "|" is dropped.
C12_RestDropped ==
  rendered # None =>
    \A i \in BoundLinks :
      LET b == RenderedLinks[i].body IN
      NumPipes(b) > 1 => (dom[i].text = KeyOf(b) /\ BoundTo(i, KeyOf(b)))

\* a body with two "|" and text after each of them was rendered
C12_Witness ==
  /\ rendered # None /\ ~crashed /\ last.op = "ReceiveNote"
  /\ \E i \in BoundLinks :
       LET b == RenderedLinks[i].body IN
       /\ NumPipes(b) = 2
       /\ KeyOf(b) # <<>>
       /\ AfterFirstPipe(b) # <<>>
       /\ AfterFirstPipe(b) # dom[i].text

\* C13: a body without "|" is its own key and display text (the empty body
\* too); a body k|d with one "|" has key k and display text d.
C13_SplitOfSimpleBodies ==
  rendered # None =>
    \A i \in BoundLinks :
      LET b == RenderedLinks[i].body IN
      /\ NumPipes(b) = 0 => (dom[i].text = b /\ BoundTo(i, b))
      /\ NumPipes(b) = 1 => (dom[i].text = AfterFirstPipe(b) /\ BoundTo(i, KeyOf(b)))

\* a body k|d with different k and d was rendered, k having an address
C13_Witness ==
  /\ rendered # None /\ ~crashed /\ last.op = "ReceiveNote"
  /\ \E i \in BoundLinks :
       LET b == RenderedLinks[i].body IN
       /\ NumPipes(b) = 1
       /\ KeyOf(b) # AfterFirstPipe(b)
       /\ KeyOf(b) \in DOMAIN rendered[1].ipfsmap
       /\ HasListener(i)

\* C14: every wikilink is bound to table.get(key): the address when the key
\* is present, nothing when it is absent; the lookup leaves the table as it is.
C14_ResolveIsLookup ==
  /\ [](rendered # None =>
          \A i \in BoundLinks : BoundTo(i, KeyOf(RenderedLinks[i].body)))
  /\ [][last'.op = "ReceiveNote" =>
          (vault' = vault /\ rendered'[1].ipfsmap = vault[1].ipfsmap)]_vars

\* a note with a resolved and an unresolved wikilink was rendered
C14_Witness ==
  /\ rendered # None /\ ~crashed /\ last.op = "ReceiveNote"
  /\ \E i, j \in BoundLinks :
       /\ KeyOf(RenderedLinks[i].body) \in DOMAIN rendered[1].ipfsmap
       /\ KeyOf(RenderedLinks[j].body) \notin DOMAIN rendered[1].ipfsmap

\* the display text extract_link gives a body: what follows the "|" when
\* there is exactly one, else what precedes the first
DisplayOf(body) ==
  IF NumPipes(body) = 1 THEN AfterFirstPipe(body) ELSE KeyOf(body)

\* the double-bracket pairs of a markup, left to right and not overlapping,
\* counted from position p on
RECURSIVE PairsFrom(_, _, _)
PairsFrom(s, p, open) ==
  IF p + 1 > Len(s) THEN 0
  ELSE IF ~open /\ s[p] = "[" /\ s[p + 1] = "[" THEN PairsFrom(s, p + 2, TRUE)
  ELSE IF open /\ s[p] = "]" /\ s[p + 1] = "]" THEN 1 + PairsFrom(s, p + 2, FALSE)
  ELSE PairsFrom(s, p + 1, open)

\* C16: the markup's N double-bracket pairs give N matches in order, each is
\* replaced by a button of its own, and the i-th button carries the label
\* and the address (or the red mark) of the i-th wikilink.
C16_ButtonsAlignWithLinks ==
  (rendered # None /\ last.op = "ReceiveNote") =>
    /\ ~crashed
    /\ Len(RenderedLinks) = PairsFrom(raw_html(rendered[1].content), 1, FALSE)
    /\ Len(dom) = Len(RenderedLinks)
    /\ \A i \in 1..Len(RenderedLinks) :
         /\ dom[i].text = DisplayOf(RenderedLinks[i].body)
         /\ BoundTo(i, KeyOf(RenderedLinks[i].body))

\* C11: a completed note fetch puts the state machine in Reading(content)
\* with, in order of appearance, one button per wikilink of the text, each
\* carrying its display text and its address in the current vault's table.
C11_NoteSuccessDisplays ==
  last.op = "ReceiveNote" =>
    /\ ~crashed
    /\ status = Reading(rendered[1].content)
    /\ rendered[1].content \in Responses(last.fetch[1])
    /\ rendered[1].ipfsmap = vault[1].ipfsmap
    /\ Len(dom) = Len(RenderedLinks)
    /\ \A i \in 1..Len(RenderedLinks) :
         /\ dom[i].text = DisplayOf(RenderedLinks[i].body)
         /\ BoundTo(i, KeyOf(RenderedLinks[i].body))

\* C15: SetUrl, handled in Home, replaces the url held by Home and nothing
\* else: no fetch is issued, the vault and the listeners stay as they are.
C15_SetUrlOnlySetsUrl ==
  [][last'.op = "SetUrl" =>
       /\ status.tag = "Home"
       /\ status'.tag = "Home"
       /\ status'.val \in Urls
       /\ UNCHANGED <<vault, dom, link_listeners, pending, crashed, nextId>>]_vars

\* a url was typed and nothing has been requested
C15_Witness ==
  /\ last.op = "SetUrl"
  /\ status = Home(<<"u">>)
  /\ pending = {}
  /\ nextId = 1

\* the root note the current vault names
RootNote == NoteFetch(0, vault[1].ipfsmap[vault[1].root])

\* C17: a load from Home whose fetches succeed leads to the root note on
\* display, the status going through the manifest-wait state and then the
\* note-wait state.
C17_LoadLeadsToRootNote ==
  /\ (last.op = "FetchVault")
       ~> (status.tag = "Reading" /\ status.val \in Responses(RootNote))
  /\ [][last'.op = "FetchVault" => status'.tag = "WaitingForVault"]_vars
  /\ [][last'.op = "ReceiveVault" =>
          (status.tag = "WaitingForVault" /\ status'.tag = "WaitingForFile")]_vars

\* C18: while a note fetch is in flight or a link listener is attached, and
\* so whenever a note completion is handled, the vault is present.
C18_VaultPresentForNotes ==
  (NotePending # {} \/ link_listeners # <<>> \/ last.op = "ReceiveNote")
    => vault # None

\* a note completion was handled and the note is on display
C18_Witness ==
  /\ last.op = "ReceiveNote"
  /\ ~crashed
  /\ status.tag = "Reading"
  /\ vault # None

\* C19: a note is rendered with the link table its address was taken from.
C19_RenderedUnderIssuingVault ==
  (last.op = "ReceiveNote" /\ ~crashed)
    => issuedUnder[last.fetch[1].id] = Some(rendered[1].ipfsmap)

====
